---------------------------- MODULE Spec2Model ----------------------------
(***************************************************************************)
(* Model of the DexBridge search and detection core (src/src/search.ts)    *)
(* and of the result computation of the view (src/src/App.tsx).            *)
(*                                                                         *)
(* A string is a sequence of characters.  A character is one of the atoms  *)
(* below; the atom's text names the Unicode character it stands for.       *)
(* An entry reference is the position of the entry in the catalog: two     *)
(* entries with equal fields at different positions are different objects. *)
(***************************************************************************)
EXTENDS Integers, Sequences, FiniteSets, TLC

(***************************************************************************)
(* Characters                                                              *)
(***************************************************************************)
\* Latin letters: a c e k (lower case), A K (upper case), FW_A (U+FF21, the
\* full-width A, which NFKC folds to A)
LatinLower == {"a", "c", "e", "k"}
LatinUpper == {"A", "K"}
FullWidth == {"FW_A"}
Digits == {"1"}
\* "SP" is U+0020, "COMMA" is U+002C, "HYPHEN" is U+002D, "US" is U+005F
Space == {"SP"}
Punct == {"COMMA", "HYPHEN"}
Underscore == {"US"}
\* hiragana: h_a (U+3042), h_e (U+3048), h_ka (U+304B), h_ke (U+3051),
\* h_xa (U+3041 small a), h_xtsu (U+3063 small tsu), h_tsu (U+3064)
Hiragana == {"h_a", "h_e", "h_ka", "h_ke", "h_xa", "h_xtsu", "h_tsu"}
\* katakana: k_a (U+30A2), k_ka (U+30AB), k_xa (U+30A1 small a)
Katakana == {"k_a", "k_ka", "k_xa"}
\* CHOON is U+30FC, the prolonged sound mark (Script=Common, category Lm)
Choon == {"CHOON"}
\* HAN is an ideograph (U+706B)
Han == {"HAN"}

Chars ==
    LatinLower \cup LatinUpper \cup FullWidth \cup Digits \cup Space \cup Punct
        \cup Underscore \cup Hiragana \cup Katakana \cup Choon \cup Han

Vowels == {"a", "e"}
Consonants == {"c", "k"}

(***************************************************************************)
(* Sequence helpers (JavaScript string and array primitives)               *)
(***************************************************************************)
\* String.prototype.slice(i, j) with 0-based i (inclusive) and j (exclusive)
Slice(s, i, j) ==
    LET lo == IF i < 0 THEN 0 ELSE i
        hi == IF j > Len(s) THEN Len(s) ELSE j
    IN  IF hi <= lo THEN <<>> ELSE [n \in 1..(hi - lo) |-> s[lo + n]]

\* s.filter(keep)
RECURSIVE FilterSeq(_, _)
FilterSeq(s, keep) ==
    IF s = <<>> THEN <<>>
    ELSE (IF Head(s) \in keep THEN <<Head(s)>> ELSE <<>>) \o FilterSeq(Tail(s), keep)

\* String.prototype.startsWith / includes
startsWith(candidate, query) ==
    /\ Len(query) <= Len(candidate)
    /\ Slice(candidate, 0, Len(query)) = query

includes(candidate, query) ==
    \E i \in 0..(Len(candidate) - Len(query)) :
        Slice(candidate, i, i + Len(query)) = query

\* new Set(...).add(x) followed by [...set]: insertion order, no duplicates
SetAdd(s, x) == IF \E i \in 1..Len(s) : s[i] = x THEN s ELSE Append(s, x)

RECURSIVE SetAddAll(_, _)
SetAddAll(s, xs) ==
    IF xs = <<>> THEN s ELSE SetAddAll(SetAdd(s, Head(xs)), Tail(xs))

\* n copies of s, concatenated
RECURSIVE Repeat(_, _)
Repeat(s, n) == IF n <= 0 THEN <<>> ELSE s \o Repeat(s, n - 1)

Range(s) == {s[i] : i \in 1..Len(s)}

\* In the loops of the model the statements of one iteration are completed
\* before the next iteration starts: "CHOOSE r \in {F(a) : a \in {e}} : TRUE"
\* is F(e) with e evaluated first.

(***************************************************************************)
(* Unicode and regular-expression primitives                               *)
(***************************************************************************)
\* String.prototype.normalize('NFKC'), per character
NFKC(ch) == IF ch = "FW_A" THEN "A" ELSE ch

\* String.prototype.toLowerCase, per character
toLowerCase(ch) ==
    CASE ch = "A" -> "a"
      [] ch = "K" -> "k"
      [] OTHER -> ch

\* value.normalize('NFKC').toLowerCase()
LowerAll(value) == [i \in 1..Len(value) |-> toLowerCase(NFKC(value[i]))]

\* the class [\s\p{P}\p{S}_] of normalize
PunctClass == Space \cup Punct \cup Underscore

\* JP_CHAR_RE, JP_RUN_RE: [\p{Script=Hiragana}\p{Script=Katakana}\p{Script=Han}ー]
JP_CHAR == Hiragana \cup Katakana \cup Han \cup Choon

\* LATIN_RUN_RE: [A-Za-z]
LATIN_CHAR == LatinLower \cup LatinUpper

\* TOKEN_SPLIT_RE splits on every character outside
\* [\p{Script=Hiragana}\p{Script=Katakana}\p{Script=Han}A-Za-z0-9];
\* U+30FC has Script=Common, so the class does not hold it
TOKEN_CHAR == Hiragana \cup Katakana \cup Han \cup LatinLower \cup LatinUpper \cup Digits

\* the class \s of isPasteMode
WHITESPACE == Space

\* regex.test(value) for a one-character class
TestClass(value, class) == \E i \in 1..Len(value) : value[i] \in class

\* value.match(/[class]+/g) ?? []: the maximal runs of class characters
RECURSIVE MatchRuns(_, _, _)
MatchRuns(s, class, cur) ==
    IF s = <<>> THEN (IF cur = <<>> THEN <<>> ELSE <<cur>>)
    ELSE IF Head(s) \in class THEN MatchRuns(Tail(s), class, Append(cur, Head(s)))
    ELSE (IF cur = <<>> THEN <<>> ELSE <<cur>>) \o MatchRuns(Tail(s), class, <<>>)

\* text.split(/[^class]+/u).filter(Boolean): the non-empty pieces between
\* separator runs, which are the maximal runs of non-separators
SplitTokens(text, class) == MatchRuns(text, class, <<>>)

\* value.replace(/xy/g, 'zy') for a two-character pattern
RECURSIVE ReplaceAll(_, _, _)
ReplaceAll(s, from, to) ==
    IF Len(s) < 2 THEN s
    ELSE IF Slice(s, 0, 2) = from THEN to \o ReplaceAll(Slice(s, 2, Len(s)), from, to)
    ELSE <<Head(s)>> \o ReplaceAll(Tail(s), from, to)

(***************************************************************************)
(* The transliteration library (wanakana), on the characters above         *)
(***************************************************************************)
\* katakana to hiragana code shift
HiraOf(ch) ==
    CASE ch = "k_a" -> "h_a"
      [] ch = "k_ka" -> "h_ka"
      [] ch = "k_xa" -> "h_xa"
      [] OTHER -> ch

\* katakanaToHiragana: shifts katakana, and turns a prolonged sound mark that
\* follows a shifted katakana into the hiragana of that kana's vowel (all kana
\* here end in the vowel a); prev is TRUE while the previous character was a
\* shifted katakana
RECURSIVE katakanaToHiragana(_, _, _)
katakanaToHiragana(s, index, prev) ==
    IF s = <<>> THEN <<>>
    ELSE LET ch == Head(s) IN
         IF ch \in Choon /\ index = 0
            THEN <<ch>> \o katakanaToHiragana(Tail(s), index + 1, prev)
         ELSE IF prev /\ ch \in Choon
            THEN <<"h_a">> \o katakanaToHiragana(Tail(s), index + 1, FALSE)
         ELSE IF ch \in Katakana
            THEN <<HiraOf(ch)>> \o katakanaToHiragana(Tail(s), index + 1, TRUE)
         ELSE <<ch>> \o katakanaToHiragana(Tail(s), index + 1, FALSE)

\* the kana of a vowel, and of a syllable k + vowel (c is an alias of k)
VowelKana(vowel) == IF vowel = "a" THEN "h_a" ELSE "h_e"

SyllableKana(vowel) == IF vowel = "a" THEN "h_ka" ELSE "h_ke"

\* toKana on lower-case input: greedy longest match in the romaji tree.
\* a -> h_a; e -> h_e; ka, ca -> h_ka; ke, ce -> h_ke; kka, cca -> h_xtsu h_ka;
\* a doubled consonant with no syllable after it is emitted as it stands;
\* everything else passes through
RECURSIVE toKana(_)
toKana(s) ==
    IF s = <<>> THEN <<>>
    ELSE LET ch == Head(s) IN
         IF ch \in Vowels THEN <<VowelKana(ch)>> \o toKana(Tail(s))
         ELSE IF ch \in Consonants
            THEN IF Len(s) >= 2 /\ s[2] \in Vowels
                    THEN <<SyllableKana(s[2])>> \o toKana(Slice(s, 2, Len(s)))
                 ELSE IF Len(s) >= 2 /\ s[2] = ch
                    THEN IF Len(s) >= 3 /\ s[3] \in Vowels
                            THEN <<"h_xtsu", SyllableKana(s[3])>>
                                     \o toKana(Slice(s, 3, Len(s)))
                         ELSE <<ch, ch>> \o toKana(Slice(s, 2, Len(s)))
                 ELSE <<ch>> \o toKana(Tail(s))
         ELSE <<ch>> \o toKana(Tail(s))

\* isCharRomaji: the ASCII range
IsRomajiChar(ch) ==
    ch \in LatinLower \cup LatinUpper \cup Digits \cup Space \cup Punct \cup Underscore

\* isCharHiragana / isCharKatakana: both accept the prolonged sound mark
IsKanaChar(ch) == ch \in Hiragana \cup Katakana \cup Choon

\* toHiragana with the default options: romaji is converted as well, unless
\* the text holds a character that is neither romaji nor kana and no kana
toHiragana(s) ==
    LET mixed == (\E i \in 1..Len(s) : IsKanaChar(s[i]))
                     /\ (\E i \in 1..Len(s) : IsRomajiChar(s[i]))
        romaji == s # <<>> /\ \A i \in 1..Len(s) : IsRomajiChar(s[i])
    IN  IF mixed
            THEN toKana(LowerAll(katakanaToHiragana(s, 0, FALSE)))
        ELSE IF romaji THEN toKana(LowerAll(s))
        ELSE katakanaToHiragana(s, 0, FALSE)

\* kana to romaji table of toRomaji, after katakanaToHiragana; a small tsu
\* doubles the consonant of the syllable after it
RECURSIVE HiraToRomaji(_)
HiraToRomaji(s) ==
    IF s = <<>> THEN <<>>
    ELSE LET ch == Head(s) IN
         CASE ch = "h_xtsu" /\ Len(s) >= 2 /\ s[2] \in {"h_ka", "h_ke"} ->
                  <<"k">> \o HiraToRomaji(Tail(s))
           [] ch = "h_a" -> <<"a">> \o HiraToRomaji(Tail(s))
           [] ch = "h_xa" -> <<"a">> \o HiraToRomaji(Tail(s))
           [] ch = "h_ka" -> <<"k", "a">> \o HiraToRomaji(Tail(s))
           [] ch = "h_e" -> <<"e">> \o HiraToRomaji(Tail(s))
           [] ch = "h_ke" -> <<"k", "e">> \o HiraToRomaji(Tail(s))
           [] ch = "CHOON" -> <<"HYPHEN">> \o HiraToRomaji(Tail(s))
           [] OTHER -> <<ch>> \o HiraToRomaji(Tail(s))

\* toRomaji; a prolonged sound mark that is left after katakanaToHiragana
\* becomes "-"
toRomaji(s) == HiraToRomaji(katakanaToHiragana(s, 0, FALSE))

(***************************************************************************)
(* Normalizer (search.ts)                                                  *)
(***************************************************************************)
normalizeLatin(value) ==
    FilterSeq(LowerAll(value), LatinLower \cup Digits)

RECURSIVE stripLongVowels(_)
stripLongVowels(value) ==
    IF Len(value) < 2 THEN value
    ELSE IF value[1] \in Vowels /\ value[2] = value[1] THEN stripLongVowels(Tail(value))
    ELSE <<Head(value)>> \o stripLongVowels(Tail(value))

\* a rewrite of every c, whatever follows it
RewriteEveryC(base) == [i \in 1..Len(base) |-> IF base[i] = "c" THEN "k" ELSE base[i]]

\* the rewrite of ca/co/cu; of o and u the alphabet holds neither
RewriteC(base) == ReplaceAll(base, <<"c", "a">>, <<"k", "a">>)

\* for (const current of [...variants]) variants.add(stripLongVowels(current))
AddStripped(variants) ==
    SetAddAll(variants, [i \in 1..Len(variants) |-> stripLongVowels(variants[i])])

\* romajiToleranceVariants once base is computed
ToleranceOf(base) ==
    IF base = <<>> THEN <<>> ELSE AddStripped(SetAdd(<<base>>, RewriteC(base)))

romajiToleranceVariants(value) == ToleranceOf(normalizeLatin(value))

\* SMALL_KANA_MAP
SmallKana(ch) ==
    CASE ch = "h_xa" -> "h_a"
      [] ch = "h_xtsu" -> "h_tsu"
      [] OTHER -> ch

\* out += SMALL_KANA_MAP[ch] ?? ch, for the characters that are kept
FoldSmallKana(kept) == [i \in 1..Len(kept) |-> SmallKana(kept[i])]

\* s without the first c of it
RECURSIVE RemoveFirst(_, _)
RemoveFirst(s, c) ==
    IF s = <<>> THEN <<>>
    ELSE IF Head(s) = c THEN Tail(s)
    ELSE <<Head(s)>> \o RemoveFirst(Tail(s), c)

\* a normalizer that drops the first prolonged sound mark only
normalizeKanaTextFirstMark(value) ==
    FoldSmallKana(RemoveFirst(toHiragana(value), "CHOON"))

\* the loop skips the prolonged sound mark
normalizeKanaText(value) == FoldSmallKana(FilterSeq(toHiragana(value), Chars \ Choon))

\* trim() removes white space that the replace after it removes anyway
normalize(value) == normalizeKanaText(FilterSeq(LowerAll(value), Chars \ PunctClass))

\* the texts normalizedVariants normalizes for the Latin letters of value, in
\* the order it adds them: each tolerance variant, then its kana
LatinTexts(tol) ==
    [i \in 1..(2 * Len(tol)) |->
        IF i % 2 = 1 THEN tol[(i + 1) \div 2] ELSE toKana(tol[i \div 2])]

\* the texts it normalizes for the Japanese characters of value: the romaji,
\* then the tolerance variants of the romaji
RomajiTexts(romaji) == <<romaji>> \o romajiToleranceVariants(romaji)

\* every text normalizedVariants normalizes, value first
VariantTexts(value) ==
    <<value>>
        \o (IF TestClass(value, LATIN_CHAR)
               THEN LatinTexts(romajiToleranceVariants(value)) ELSE <<>>)
        \o (IF TestClass(value, JP_CHAR) THEN RomajiTexts(toRomaji(value)) ELSE <<>>)

NormalizeAll(texts) == [i \in 1..Len(texts) |-> normalize(texts[i])]

\* variants without the early return for an empty base
VariantSetOfAll(normalized) == SetAddAll(<<>>, normalized)

\* normalized[1] is base; the Set keeps the first occurrence of each variant
VariantSet(normalized) ==
    IF normalized[1] = <<>> THEN <<>> ELSE SetAddAll(<<>>, normalized)

normalizedVariants(value) == VariantSet(NormalizeAll(VariantTexts(value)))

(***************************************************************************)
(* Entries and indexes (types.ts, search.ts)                               *)
(*                                                                         *)
(* A DexEntry is a record [ref, dex, en, ja, roomaji, aliases, evolution]. *)
(* ref is the identity of the object: its position in the catalog.  An     *)
(* absent roomaji is the empty string, an absent aliases or evolution the  *)
(* empty list: the code reads them through ?? and truthiness tests that    *)
(* treat both alike.                                                       *)
(***************************************************************************)
\* rank of a candidate value for a query variant; 0 stands for null
rankValue(query, candidate) ==
    IF query = <<>> \/ candidate = <<>> THEN 0
    ELSE IF candidate = query THEN 1
    ELSE IF startsWith(candidate, query) THEN 2
    ELSE IF includes(candidate, query) THEN 3
    ELSE 0

\* fields.flatMap((v) => normalizedVariants(v))
RECURSIVE FlatVariants(_)
FlatVariants(fields) ==
    IF fields = <<>> THEN <<>>
    ELSE normalizedVariants(Head(fields)) \o FlatVariants(Tail(fields))

\* a set that keeps the entry a key already has
MapSetKeepFirst(map, key, entry) ==
    [k \in (DOMAIN map) \cup {key} |-> IF k \in DOMAIN map THEN map[k] ELSE entry]

\* Map.prototype.set: a later set of the same key replaces the entry
MapSet(map, key, entry) ==
    [k \in (DOMAIN map) \cup {key} |-> IF k = key THEN entry ELSE map[k]]

\* for (const key of keys) map.set(key, entry)
RECURSIVE MapSetAll(_, _, _)
MapSetAll(map, keys, entry) ==
    IF keys = <<>> THEN map
    ELSE MapSetAll(MapSet(map, Head(keys), entry), Tail(keys), entry)

\* values computed from the names without the aliases
PreparedValuesWithoutAliases(entry) ==
    FlatVariants(<<entry.en, entry.ja, entry.roomaji>>)

\* values that keep one occurrence of each variant
PreparedValuesDeduplicated(entry) ==
    SetAddAll(<<>>, FlatVariants(<<entry.en, entry.ja, entry.roomaji>> \o entry.aliases))

\* the values of one PreparedEntry
PreparedValues(entry) ==
    FlatVariants(<<entry.en, entry.ja, entry.roomaji>> \o entry.aliases)

\* the texts of one entry whose variants are the keys of one exact-match map
FieldTexts(entry, field) ==
    CASE field = "en" -> <<entry.en>>
      [] field = "ja" -> <<entry.ja>>
      [] field = "roomaji" -> IF entry.roomaji # <<>> THEN <<entry.roomaji>> ELSE <<>>
      [] field = "aliases" -> entry.aliases

\* one exact-match map: the loop over the entries from position i on
RECURSIVE BuildMap(_, _, _, _)
BuildMap(entries, i, field, map) ==
    IF i > Len(entries) THEN map
    ELSE CHOOSE r \in {BuildMap(entries, i + 1, field, m) :
                          m \in {MapSetAll(map, FlatVariants(FieldTexts(entries[i], field)),
                                            entries[i])}} : TRUE

\* the list prepared: one PreparedEntry per entry, in catalog order
PreparedOf(entries) ==
    [i \in 1..Len(entries) |-> [entry |-> entries[i], values |-> PreparedValues(entries[i])]]

\* the record createIndexes returns; fuse stands for the matcher's index: the
\* collection it was built over
IndexesOf(entries, maps) ==
    [prepared |-> PreparedOf(entries),
     fuse |-> entries,
     enMap |-> maps["en"],
     jaMap |-> maps["ja"],
     roomajiMap |-> maps["roomaji"],
     aliasMap |-> maps["aliases"]]

createIndexes(entries) ==
    IndexesOf(entries,
              [field \in {"en", "ja", "roomaji", "aliases"} |->
                  BuildMap(entries, 1, field, <<>>)])

(***************************************************************************)
(* Direct search (search.ts)                                               *)
(***************************************************************************)
\* String.prototype.trim
RECURSIVE TrimStart(_)
TrimStart(s) == IF s # <<>> /\ Head(s) \in WHITESPACE THEN TrimStart(Tail(s)) ELSE s

RECURSIVE TrimEnd(_)
TrimEnd(s) ==
    IF s # <<>> /\ s[Len(s)] \in WHITESPACE THEN TrimEnd(SubSeq(s, 1, Len(s) - 1)) ELSE s

Trim(s) == TrimEnd(TrimStart(s))

\* (a, b) => a.dex - b.dex is negative
ByDex(a, b) == a.dex < b.dex

\* a comparator that forgets the dex: equal ranks stay in catalog order
ByRankOnly(a, b) == a.rank < b.rank

\* a comparator that forgets the rank
ByDexOfRanked(a, b) == a.entry.dex < b.entry.dex

\* (a, b) => a.rank - b.rank || a.entry.dex - b.entry.dex is negative
ByRankThenDex(a, b) ==
    \/ a.rank < b.rank
    \/ a.rank = b.rank /\ a.entry.dex < b.entry.dex

\* Array.prototype.sort is stable: x goes before the first element that the
\* comparator puts after it
RECURSIVE InsertByDex(_, _)
InsertByDex(sorted, x) ==
    IF sorted = <<>> THEN <<x>>
    ELSE IF ByDex(x, Head(sorted)) THEN <<x>> \o sorted
    ELSE <<Head(sorted)>> \o InsertByDex(Tail(sorted), x)

\* entries.sort((a, b) => a.dex - b.dex)
RECURSIVE SortByDex(_)
SortByDex(s) ==
    IF s = <<>> THEN <<>>
    ELSE InsertByDex(SortByDex(SubSeq(s, 1, Len(s) - 1)), s[Len(s)])

RECURSIVE InsertRanked(_, _)
InsertRanked(sorted, x) ==
    IF sorted = <<>> THEN <<x>>
    ELSE IF ByRankThenDex(x, Head(sorted)) THEN <<x>> \o sorted
    ELSE <<Head(sorted)>> \o InsertRanked(Tail(sorted), x)

\* ranked.sort((a, b) => a.rank - b.rank || a.entry.dex - b.entry.dex)
RECURSIVE SortRanked(_)
SortRanked(s) ==
    IF s = <<>> THEN <<>>
    ELSE InsertRanked(SortRanked(SubSeq(s, 1, Len(s) - 1)), s[Len(s)])

\* an inner loop that keeps the rank of the last match
RECURSIVE ScanValuesLastMatch(_, _, _, _)
ScanValuesLastMatch(q, values, j, bestRank) ==
    IF j > Len(values) THEN bestRank
    ELSE LET rank == rankValue(q, values[j])
         IN  IF rank = 0 THEN ScanValuesLastMatch(q, values, j + 1, bestRank)
             ELSE IF rank = 1 THEN 1
             ELSE ScanValuesLastMatch(q, values, j + 1, rank)

\* the inner loop over prepared.values; it breaks once bestRank is 1
RECURSIVE ScanValues(_, _, _, _)
ScanValues(q, values, j, bestRank) ==
    IF j > Len(values) THEN bestRank
    ELSE LET rank == rankValue(q, values[j])
             best == IF bestRank = 0 \/ rank < bestRank THEN rank ELSE bestRank
         IN  IF rank = 0 THEN ScanValues(q, values, j + 1, bestRank)
             ELSE IF best = 1 THEN 1
             ELSE ScanValues(q, values, j + 1, best)

\* the loop over the query variants; it breaks once bestRank is 1
RECURSIVE ScanQueries(_, _, _, _)
ScanQueries(queries, i, values, bestRank) ==
    IF i > Len(queries) THEN bestRank
    ELSE LET best == ScanValues(queries[i], values, 1, bestRank)
         IN  IF best = 1 THEN 1 ELSE ScanQueries(queries, i + 1, values, best)

\* the ranked list before sorting: one pair per prepared entry with a match
RECURSIVE RankAll(_, _)
RankAll(prepared, queries) ==
    IF prepared = <<>> THEN <<>>
    ELSE LET p == Head(prepared)
             bestRank == ScanQueries(queries, 1, p.values, 0)
         IN  (IF bestRank # 0 THEN <<[entry |-> p.entry, rank |-> bestRank]>> ELSE <<>>)
                 \o RankAll(Tail(prepared), queries)

\* ranked.map((r) => r.entry)
EntriesOfRanked(ranked) == [i \in 1..Len(ranked) |-> ranked[i].entry]

\* the result for a non-blank query, from its variants
SearchVariants(prepared, queries, limit) ==
    IF queries = <<>> THEN <<>>
    ELSE EntriesOfRanked(Slice(SortRanked(RankAll(prepared, queries)), 0, limit))

\* a blank query answered in catalog order, without the sort
SearchTrimmedUnsorted(prepared, trimmed, limit) ==
    IF trimmed = <<>>
        THEN Slice([i \in 1..Len(prepared) |-> prepared[i].entry], 0, limit)
    ELSE SearchVariants(prepared, normalizedVariants(trimmed), limit)

\* the result from the trimmed query
SearchTrimmed(prepared, trimmed, limit) ==
    IF trimmed = <<>>
        THEN Slice(SortByDex([i \in 1..Len(prepared) |-> prepared[i].entry]), 0, limit)
    ELSE SearchVariants(prepared, normalizedVariants(trimmed), limit)

fastSearch(indexes, query, limit) == SearchTrimmed(indexes.prepared, Trim(query), limit)

\* the prepared list after a sort on the list itself: a blank query leaves
\* it in order of dex
RECURSIVE InsertPrepared(_, _)
InsertPrepared(sorted, x) ==
    IF sorted = <<>> THEN <<x>>
    ELSE IF x.entry.dex < Head(sorted).entry.dex THEN <<x>> \o sorted
    ELSE <<Head(sorted)>> \o InsertPrepared(Tail(sorted), x)

RECURSIVE SortPrepared(_)
SortPrepared(s) ==
    IF s = <<>> THEN <<>>
    ELSE InsertPrepared(SortPrepared(SubSeq(s, 1, Len(s) - 1)), s[Len(s)])

PreparedSortedInPlace(indexes, query) ==
    IF Trim(query) = <<>> THEN SortPrepared(indexes.prepared) ELSE indexes.prepared

\* indexes.prepared after fastSearch: map() copies the list before sort()
\* orders the copy, so the list of the index keeps its order
PreparedAfterFastSearch(indexes, query) == indexes.prepared

(***************************************************************************)
(* Fuzzy search (search.ts)                                                *)
(***************************************************************************)
\* fuseAnswer is what the matcher returns for (query, limit); the matcher is
\* a library, its answer is an input of the model
fuzzySearch(indexes, query, limit, fuseAnswer) ==
    IF Trim(query) = <<>> THEN <<>> ELSE fuseAnswer

(***************************************************************************)
(* Paste detection (search.ts)                                             *)
(***************************************************************************)
PASTE_LENGTH == 30
JP_MAX_WINDOW == 6
JP_MIN_WINDOW == 2
LATIN_MAX_WINDOW == 12
LATIN_MIN_WINDOW == 3

\* a threshold that already counts an input of PASTE_LENGTH characters
isPasteModeFromThreshold(input) ==
    Len(input) >= PASTE_LENGTH \/ TestClass(input, WHITESPACE)

isPasteMode(input) == Len(input) > PASTE_LENGTH \/ TestClass(input, WHITESPACE)

\* a detection that does not look at matchedDex
detectFromMapNoDedup(map, token, acc) ==
    LET key == normalize(token) IN
    IF key = <<>> \/ key \notin DOMAIN map THEN acc
    ELSE [matchedDex |-> acc.matchedDex \cup {map[key].dex},
          detected |-> Append(acc.detected, map[key])]

\* acc is [matchedDex, detected]: the two locals of detectFromPastedText
detectFromMap(map, token, acc) ==
    LET key == normalize(token) IN
    IF key = <<>> THEN acc
    ELSE IF key \notin DOMAIN map \/ map[key].dex \in acc.matchedDex THEN acc
    ELSE [matchedDex |-> acc.matchedDex \cup {map[key].dex},
          detected |-> Append(acc.detected, map[key])]

\* consecutive detectFromMap calls on the same token, one per map
RECURSIVE ProbeMaps(_, _, _)
ProbeMaps(maps, token, acc) ==
    IF maps = <<>> THEN acc
    ELSE ProbeMaps(Tail(maps), token, detectFromMap(Head(maps), token, acc))

\* for (const token of tokens) { ... }
RECURSIVE TokenPass(_, _, _)
TokenPass(maps, tokens, acc) ==
    IF tokens = <<>> THEN acc
    ELSE CHOOSE r \in {TokenPass(maps, Tail(tokens), a) :
                          a \in {ProbeMaps(maps, Head(tokens), acc)}} : TRUE

\* a slide that stops one position early
RECURSIVE SlideLoopShort(_, _, _, _, _)
SlideLoopShort(maps, chars, size, i, acc) ==
    IF i >= Len(chars) - size THEN acc
    ELSE CHOOSE r \in {SlideLoopShort(maps, chars, size, i + 1, a) :
                          a \in {ProbeMaps(maps, Slice(chars, i, i + size), acc)}} : TRUE

\* for (let i = 0; i <= chars.length - size; i += 1) { ... }
RECURSIVE SlideLoop(_, _, _, _, _)
SlideLoop(maps, chars, size, i, acc) ==
    IF i > Len(chars) - size THEN acc
    ELSE CHOOSE r \in {SlideLoop(maps, chars, size, i + 1, a) :
                          a \in {ProbeMaps(maps, Slice(chars, i, i + size), acc)}} : TRUE

\* a loop over the window sizes from the shortest to the longest
RECURSIVE WindowLoopUp(_, _, _, _, _)
WindowLoopUp(maps, chars, size, maxSize, acc) ==
    IF size > maxSize THEN acc
    ELSE IF Len(chars) < size THEN acc
    ELSE CHOOSE r \in {WindowLoopUp(maps, chars, size + 1, maxSize, a) :
                          a \in {SlideLoop(maps, chars, size, 0, acc)}} : TRUE

WindowLoopShorterFirst(maps, chars, size, minSize, acc) ==
    WindowLoopUp(maps, chars, minSize, size, acc)

\* for (let size = maxSize; size >= minSize; size -= 1) { ... }
RECURSIVE WindowLoop(_, _, _, _, _)
WindowLoop(maps, chars, size, minSize, acc) ==
    IF size < minSize THEN acc
    ELSE IF Len(chars) < size THEN WindowLoop(maps, chars, size - 1, minSize, acc)
    ELSE CHOOSE r \in {WindowLoop(maps, chars, size - 1, minSize, a) :
                          a \in {SlideLoop(maps, chars, size, 0, acc)}} : TRUE

\* for (const run of runs) { const chars = normalize(run); ... }
RECURSIVE RunsPass(_, _, _, _, _)
RunsPass(maps, runs, maxSize, minSize, acc) ==
    IF runs = <<>> THEN acc
    ELSE CHOOSE r \in {RunsPass(maps, Tail(runs), maxSize, minSize, a) :
                          a \in {WindowLoop(maps, normalize(Head(runs)), maxSize,
                                             minSize, acc)}} : TRUE

\* the local list detected when the three passes are over, before the sort
detectedInOrder(indexes, text) ==
    LET tokens == SplitTokens(text, TOKEN_CHAR)
        afterTokens ==
            TokenPass(<<indexes.enMap, indexes.jaMap, indexes.roomajiMap, indexes.aliasMap>>,
                      tokens, [matchedDex |-> {}, detected |-> <<>>])
        jpRuns == MatchRuns(text, JP_CHAR, <<>>)
        afterJp ==
            RunsPass(<<indexes.jaMap, indexes.aliasMap>>, jpRuns,
                     JP_MAX_WINDOW, JP_MIN_WINDOW, afterTokens)
        latinRuns == MatchRuns(text, LATIN_CHAR, <<>>)
        afterLatin ==
            RunsPass(<<indexes.enMap, indexes.roomajiMap, indexes.aliasMap>>, latinRuns,
                     LATIN_MAX_WINDOW, LATIN_MIN_WINDOW, afterJp)
    IN  afterLatin.detected

detectFromPastedText(indexes, text) == SortByDex(detectedInOrder(indexes, text))

(***************************************************************************)
(* Result computation of the view (App.tsx)                                *)
(***************************************************************************)
MAX_RESULTS == 20
FUZZY_THRESHOLD == 5

\* new Map(entries.map((entry) => [entry.dex, entry])): a map from dex to
\* the last entry with that dex
RECURSIVE EntryByDex(_, _)
EntryByDex(entries, n) ==
    IF n = 0 THEN <<>>
    ELSE MapSet(EntryByDex(entries, n - 1), entries[n].dex, entries[n])

evolutionForEntry(entry) ==
    IF entry.evolution # <<>> THEN entry.evolution ELSE <<entry.dex>>

\* a push that does not look at the dex already pushed
PushExpandedSeenAgain(expanded, found, entry, limit) ==
    IF ~found \/ Len(expanded) >= limit THEN expanded ELSE Append(expanded, entry)

\* a push that does not look at the length of the list
PushExpandedNoLimit(expanded, found, entry, limit) ==
    IF ~found \/ entry.dex \in {expanded[i].dex : i \in 1..Len(expanded)} THEN expanded
    ELSE Append(expanded, entry)

\* push(entry) of withEvolutionChainResults on the list built so far; found
\* is FALSE for an undefined entry; seen is the set of the dex of expanded
PushExpanded(expanded, found, entry, limit) ==
    IF ~found \/ entry.dex \in {expanded[i].dex : i \in 1..Len(expanded)}
              \/ Len(expanded) >= limit
        THEN expanded
    ELSE Append(expanded, entry)

\* for (const evoDex of evolutionForEntry(entry)) push(entryByDex.get(evoDex))
RECURSIVE PushChain(_, _, _, _)
PushChain(expanded, chain, byDex, limit) ==
    IF chain = <<>> THEN expanded
    ELSE LET found == Head(chain) \in DOMAIN byDex
             next == IF found
                        THEN PushExpanded(expanded, TRUE, byDex[Head(chain)], limit)
                        ELSE expanded
         IN  PushChain(next, Tail(chain), byDex, limit)

\* for (const entry of seed) { ... }
RECURSIVE ExpandLoop(_, _, _, _)
ExpandLoop(expanded, seed, byDex, limit) ==
    IF seed = <<>> \/ Len(expanded) >= limit THEN expanded
    ELSE CHOOSE r \in {ExpandLoop(e, Tail(seed), byDex, limit) :
                          e \in {PushChain(PushExpanded(expanded, TRUE, Head(seed), limit),
                                            evolutionForEntry(Head(seed)), byDex, limit)}} :
                    TRUE

withEvolutionChainResults(seed, query, byDex, limit) ==
    IF Trim(query) = <<>> THEN Slice(seed, 0, limit)
    ELSE ExpandLoop(<<>>, seed, byDex, limit)

\* for (const item of fuzzy) { ... } on merged = [...direct]
RECURSIVE MergeLoop(_, _)
MergeLoop(merged, fuzzyItems) ==
    IF fuzzyItems = <<>> \/ Len(merged) >= MAX_RESULTS THEN merged
    ELSE IF Head(fuzzyItems).dex \in {merged[i].dex : i \in 1..Len(merged)}
        THEN MergeLoop(merged, Tail(fuzzyItems))
    ELSE MergeLoop(Append(merged, Head(fuzzyItems)), Tail(fuzzyItems))

\* an early return that needs more than the threshold
FuzzyInvokedUpToThreshold(direct, enabled) ==
    ~(Len(direct) > FUZZY_THRESHOLD /\ ~enabled)

\* direct.length >= 5 && !fuzzyEnabled returns before fuzzySearch is called
FuzzyInvoked(direct, enabled) == ~(Len(direct) >= FUZZY_THRESHOLD /\ ~enabled)

\* the value of the results memo, from the two search results; fuzzyItems is
\* read only if fuzzySearch is called
AppResults(entries, q, enabled, direct, fuzzyItems) ==
    IF ~FuzzyInvoked(direct, enabled) THEN direct
    ELSE withEvolutionChainResults(MergeLoop(direct, fuzzyItems), q,
                                   EntryByDex(entries, Len(entries)), MAX_RESULTS)

(***************************************************************************)
(* Result computation of the view without the toggle (unnamed/part_001):   *)
(* the chain of an entry is the union of the chains that hold its dex      *)
(***************************************************************************)
\* for (const member of chain) { ... byDex.set(member, current) }
RECURSIVE RelateMembers(_, _, _)
RelateMembers(byDex, members, chain) ==
    IF members = <<>> THEN byDex
    ELSE RelateMembers(
             MapSet(byDex, Head(members),
                    (IF Head(members) \in DOMAIN byDex THEN byDex[Head(members)]
                     ELSE {Head(members)}) \cup Range(chain)),
             Tail(members), chain)

\* for (const entry of ENTRIES) { ... }
RECURSIVE RelateEntries(_, _, _)
RelateEntries(byDex, entries, i) ==
    IF i > Len(entries) THEN byDex
    ELSE CHOOSE r \in {RelateEntries(b, entries, i + 1) :
                          b \in {RelateMembers(byDex, evolutionForEntry(entries[i]),
                                                evolutionForEntry(entries[i]))}} : TRUE

\* [...values].sort((a, b) => a - b)
RECURSIVE Ascending(_)
Ascending(values) ==
    IF values = {} THEN <<>>
    ELSE CHOOSE r \in {<<least>> \o Ascending(values \ {least}) :
                          least \in {x \in values : \A y \in values : x <= y}} : TRUE

SortValues(byDex) == [dex \in DOMAIN byDex |-> Ascending(byDex[dex])]

relatedDexByDex(entries) == SortValues(RelateEntries(<<>>, entries, 1))

\* relatedDexByDex.get(entry.dex) ?? [entry.dex]
RelatedDex(related, entry) ==
    IF entry.dex \in DOMAIN related THEN related[entry.dex] ELSE <<entry.dex>>

\* for (const entry of seed) { ... }
RECURSIVE ExpandRelatedLoop(_, _, _, _, _)
ExpandRelatedLoop(expanded, seed, byDex, related, limit) ==
    IF seed = <<>> \/ Len(expanded) >= limit THEN expanded
    ELSE CHOOSE r \in {ExpandRelatedLoop(e, Tail(seed), byDex, related, limit) :
                          e \in {PushChain(PushExpanded(expanded, TRUE, Head(seed), limit),
                                            RelatedDex(related, Head(seed)), byDex, limit)}} :
                    TRUE

withRelatedChainResults(seed, query, byDex, related, limit) ==
    IF Trim(query) = <<>> THEN Slice(seed, 0, limit)
    ELSE ExpandRelatedLoop(<<>>, seed, byDex, related, limit)

\* direct.length >= 5 returns before fuzzySearch is called
RelatedFuzzyInvoked(direct) == ~(Len(direct) >= FUZZY_THRESHOLD)

\* the value of the results memo
RelatedAppResults(entries, q, direct, fuzzyItems) ==
    IF ~RelatedFuzzyInvoked(direct) THEN direct
    ELSE withRelatedChainResults(MergeLoop(direct, fuzzyItems), q,
                                 EntryByDex(entries, Len(entries)),
                                 relatedDexByDex(entries), MAX_RESULTS)

(***************************************************************************)
(* Bounds and inputs                                                       *)
(***************************************************************************)
\* longest catalog drawn from Pool
MaxCatalog == 3
\* largest generated catalog
MaxBig == 22
\* largest limit argument of a direct call, besides MAX_RESULTS
MaxLimit == 2
\* longest matcher answer that is enumerated item by item
MaxFuse == 2
\* the items such an answer is drawn from
FusePick == 2
\* longest input of the paste-mode predicate
MaxInput == 32
\* longest text given to the normalizer
MaxText == 3
\* longest Latin text given to the romaji tolerance
MaxLatin == 5
\* longest catalog of which every order is given to createIndexes
MaxOrdered == 3
\* most query variants, and most values of an entry, given to the rank scan
MaxVariants == 2
MaxValues == 3

KA == <<"k", "a">>
KKA == <<"k_ka">>

Entry(dex, en, ja, roomaji, aliases, evolution) ==
    [dex |-> dex, en |-> en, ja |-> ja, roomaji |-> roomaji,
     aliases |-> aliases, evolution |-> evolution]

\* the entries catalogs are drawn from: short and long names, names that
\* share normalized variants (2 and 4), a repeated dex (2 and 5), names as
\* long as the longest window (6) and longer (the aliases of 3)
Pool ==
    << Entry(1, <<"K", "a">>, KKA, KA, <<>>, <<1, 2>>),
       Entry(2, <<"K", "a", "k", "a">>, <<"k_ka", "k_ka">>, <<>>,
             << <<"c", "a", "a">> >>, <<1, 2>>),
       Entry(3, <<"a", "k", "a", "k", "a">>, <<"k_a", "k_ka", "CHOON">>,
             <<"a", "k", "a", "a">>,
             <<Repeat(KA, LATIN_MAX_WINDOW + 1), Repeat(KKA, JP_MAX_WINDOW + 1)>>, <<>>),
       Entry(4, <<"k", "a", "k", "a">>, <<"HAN", "k_ka">>, <<>>,
             << <<"a", "SP", "k", "a">> >>, <<4, 3>>),
       Entry(2, <<"a", "k">>, <<"k_a", "k_ka", "k_ka">>, <<"k", "a", "a">>, <<>>, <<>>),
       Entry(6, Repeat(KA, LATIN_MAX_WINDOW), Repeat(KKA, JP_MAX_WINDOW), <<>>, <<>>,
             <<6, 9>>) >>

\* the catalog objects: each entry gets its position as identity
WithRefs(templates) ==
    [i \in 1..Len(templates) |->
        [ref |-> i, dex |-> templates[i].dex, en |-> templates[i].en,
         ja |-> templates[i].ja, roomaji |-> templates[i].roomaji,
         aliases |-> templates[i].aliases, evolution |-> templates[i].evolution]]

\* sequences of distinct elements of S, of length 0..n
RECURSIVE InjectiveSeqs(_, _)
InjectiveSeqs(S, n) ==
    IF n = 0 THEN {<<>>}
    ELSE LET shorter == InjectiveSeqs(S, n - 1)
         IN  shorter \cup UNION {{Append(s, x) : x \in S \ Range(s)} : s \in shorter}

RECURSIVE Reverse(_)
Reverse(s) == IF s = <<>> THEN <<>> ELSE Append(Reverse(Tail(s)), Head(s))

\* the increasing sequences of pool positions, of length 0..n
Increasing(n) ==
    {s \in InjectiveSeqs(1..Len(Pool), n) :
        \A i \in 1..(Len(s) - 1) : s[i] < s[i + 1]}

\* every choice of up to MaxCatalog pool entries, in pool order and reversed
Catalogs ==
    {WithRefs([i \in 1..Len(s) |-> Pool[s[i]]]) :
        s \in Increasing(MaxCatalog) \cup {Reverse(t) : t \in Increasing(MaxCatalog)}}

\* the pool entries whose dex no other pool entry has
UniquePool ==
    {i \in 1..Len(Pool) : \A j \in 1..Len(Pool) : Pool[j].dex = Pool[i].dex => j = i}

\* every choice of up to MaxOrdered of them, in every order
OrderedCatalogs ==
    {WithRefs([i \in 1..Len(s) |-> Pool[s[i]]]) : s \in InjectiveSeqs(UniquePool, MaxOrdered)}

\* generated catalogs of n entries with the dex 1..n: a third of the entries
\* each are named kaka, ka and akaka
BigEntry(dex) ==
    IF dex % 3 = 0
        THEN Entry(dex, <<"a", "k", "a", "k", "a">>, <<"k_a", "k_ka", "k_ka">>, <<>>, <<>>,
                   <<dex, dex + 1>>)
    ELSE IF dex % 3 = 1
        THEN Entry(dex, <<"k", "a", "k", "a">>, <<"k_ka", "k_ka">>, <<>>, <<>>, <<>>)
    ELSE Entry(dex, KA, KKA, <<>>, <<>>, <<dex - 1, dex>>)

\* sizes around the fuzzy threshold and around the result limit
BigSizes ==
    ((FUZZY_THRESHOLD - 1)..(FUZZY_THRESHOLD + 1)) \cup ((MAX_RESULTS - 1)..MaxBig)

\* in ascending order of dex, and two of them in descending order
BigCatalogs ==
    {WithRefs([i \in 1..n |-> BigEntry(i)]) : n \in BigSizes}
        \cup {WithRefs([i \in 1..n |-> BigEntry(n + 1 - i)]) :
                  n \in {FUZZY_THRESHOLD + 1, MaxBig}}

AppCatalogs == BigCatalogs \cup {c \in Catalogs : Len(c) <= 1}

Queries ==
    { <<>>, <<"SP">>, KA, <<"K", "a", "SP">>, <<"k", "a", "k", "a">>, <<"a">>,
      <<"c", "a", "a">>, KKA, <<"k_ka", "CHOON">>, <<"k">>, <<"COMMA">>, <<"HAN">> }

FuzzyQueries == { <<>>, <<"SP">>, KA, <<"k_ka", "CHOON">> }

AppQueries ==
    { <<>>, <<"SP">>, KA, <<"a", "k", "a">>, <<"c">>, <<"k", "a", "SP", "a">>,
      <<"k", "a", "k", "a">> }

Limits == (1..MaxLimit) \cup {MAX_RESULTS}

Texts ==
    { <<>>,
      KA \o <<"SP">> \o KA \o KA,
      <<"a", "k", "a", "k", "a", "COMMA", "k_ka", "k_ka">>,
      <<"c">> \o KA \o KA \o <<"c">>,
      <<"a">> \o KA \o KA \o <<"k">>,
      <<"k", "a", "a">>,
      <<"a", "k", "a", "a", "k">>,
      <<"a", "k", "a", "k", "a", "c", "SP", "a", "k", "a", "k", "a">>,
      <<"k_a", "k_ka", "k_a">>,
      <<"k_a", "k_ka", "k_ka", "k_a">>,
      <<"k_a", "k_ka", "CHOON", "SP", "k_ka">>,
      <<"k_ka", "CHOON", "k_ka">>,
      <<"k_ka", "k_ka", "COMMA", "k_a", "k_ka", "k_ka", "k_a">>,
      KA \o <<"COMMA", "k_a", "k_ka", "k_ka", "k_a", "SP", "a">>
          \o Repeat(KA, LATIN_MAX_WINDOW) \o <<"a">>,
      <<"HAN", "k_ka", "k", "a">>,
      <<"k_a">> \o Repeat(KKA, JP_MAX_WINDOW) \o <<"k_a">>,
      <<"k_a">> \o Repeat(KKA, JP_MAX_WINDOW + 1) \o <<"k_a">>,
      Repeat(KKA, JP_MAX_WINDOW + 1),
      <<"c">> \o Repeat(KA, LATIN_MAX_WINDOW) \o <<"c">>,
      <<"c">> \o Repeat(KA, LATIN_MAX_WINDOW + 1) \o <<"c">>,
      Repeat(KA, LATIN_MAX_WINDOW + 1) }

\* every text of up to n characters of an alphabet
StringsOf(alphabet, n) == UNION {[1..k -> alphabet] : k \in 0..n}

\* the characters of the texts given to the normalizer: letters of both
\* cases and widths, a digit, white space, punctuation, plain and small
\* kana of both syllabaries, the prolonged sound mark, an ideograph
TextChars ==
    {"a", "k", "K", "FW_A", "1", "SP", "HYPHEN", "h_ka", "h_xa", "h_xtsu", "k_ka",
     "CHOON", "HAN"}

NormalizerTexts == StringsOf(TextChars, MaxText)

\* the characters of the texts given to the romaji tolerance
LatinTextChars == {"a", "e", "c", "k", "K", "1", "SP"}

ToleranceTexts == StringsOf(LatinTextChars, MaxLatin)

\* the texts of the variants and values given to the rank scan: the empty
\* text, and texts that are equal to, start or hold one another
ScanTexts ==
    { <<>>, <<"h_ka">>, <<"h_ka", "h_ka">>, <<"h_a", "h_ka">>, <<"h_a", "h_ka", "h_ka">> }

VariantLists == StringsOf(ScanTexts, MaxVariants)

ValueLists == StringsOf(ScanTexts, MaxValues)

\* arguments of isPasteMode among the calls of the other operations
PasteTexts ==
    { <<>>, KA, KA \o <<"SP">> \o KA \o KA, Repeat(<<"a">>, PASTE_LENGTH),
      Repeat(<<"a">>, PASTE_LENGTH + 1) }

\* inputs of isPasteMode: n letters, and n letters with one space among them
PasteInputs ==
    {Repeat(<<"a">>, n) : n \in 0..MaxInput}
        \cup UNION {{Repeat(<<"a">>, i) \o <<"SP">> \o Repeat(<<"a">>, n - 1 - i) :
                        i \in {0, n \div 2, n - 1}} : n \in 1..MaxInput}

\* what the matcher may answer: distinct items of its collection, at most
\* limit of them; the answers of up to MaxFuse items among the first FusePick
\* of the collection, and the collection in its own order and reversed
FuseAnswers(collection, limit) ==
    LET first == Slice(collection, 0, FusePick)
        short == {[i \in 1..Len(s) |-> first[s[i]]] :
                     s \in InjectiveSeqs(1..Len(first), MaxFuse)}
    IN  {Slice(a, 0, limit) : a \in short \cup {collection, Reverse(collection)}}

(***************************************************************************)
(* State                                                                   *)
(***************************************************************************)
VARIABLES
    entries,        \* the catalog (dexData)
    indexes,        \* the SearchIndexes built from it
    built,          \* history: the indexes as createIndexes returned them
    call,           \* history: the call of the search API that just returned
    ret,            \* history: the list it returned (else empty)
    flag,           \* history: the boolean it returned (else FALSE)
    found,          \* history: the detections of that call in the order they were made
    query,          \* App state: the text of the input
    fuzzyEnabled,   \* App state: the Fuzzy toggle
    pasteMode,      \* App render: isPasteMode(query)
    detected,       \* App render: the detected memo
    results,        \* App render: the results memo
    fuzzyCalled,    \* history: the last results computation called fuzzySearch
    fuzzy,          \* history: what fuzzySearch returned to it
    relatedResults, \* App render of unnamed/part_001: the results memo
    relatedFuzzyCalled  \* history: that computation called fuzzySearch

apiVars == <<call, ret, flag, found>>
appVars == <<query, fuzzyEnabled, pasteMode, detected, results, fuzzyCalled, fuzzy,
            relatedResults, relatedFuzzyCalled>>
vars == <<entries, indexes, built, call, ret, flag, found, query, fuzzyEnabled, pasteMode,
          detected, results, fuzzyCalled, fuzzy, relatedResults, relatedFuzzyCalled>>

\* one render of App: the memos of pasteMode, detected and results, from
\* direct = fastSearch(indexes, q, MAX_RESULTS); fuseAnswer is the matcher's
\* answer, should it be asked
RenderWith(idx, cat, q, enabled, fuseAnswer, direct) ==
    [query |-> q,
     fuzzyEnabled |-> enabled,
     pasteMode |-> isPasteMode(q),
     detected |-> IF isPasteMode(q) THEN detectFromPastedText(idx, q) ELSE <<>>,
     fuzzyCalled |-> FuzzyInvoked(direct, enabled),
     fuzzy |-> IF FuzzyInvoked(direct, enabled)
                  THEN fuzzySearch(idx, q, MAX_RESULTS, fuseAnswer)
                  ELSE <<>>,
     results |-> AppResults(cat, q, enabled, direct,
                            fuzzySearch(idx, q, MAX_RESULTS, fuseAnswer)),
     relatedFuzzyCalled |-> RelatedFuzzyInvoked(direct),
     relatedResults |-> RelatedAppResults(cat, q, direct,
                                          fuzzySearch(idx, q, MAX_RESULTS, fuseAnswer))]

RenderState(idx, cat, q, enabled, fuseAnswer) ==
    RenderWith(idx, cat, q, enabled, fuseAnswer, fastSearch(idx, q, MAX_RESULTS))

Render(q, enabled, fuseAnswer) ==
    \E r \in {RenderState(indexes, entries, q, enabled, fuseAnswer)} :
        /\ query' = r.query
        /\ fuzzyEnabled' = r.fuzzyEnabled
        /\ pasteMode' = r.pasteMode
        /\ detected' = r.detected
        /\ fuzzyCalled' = r.fuzzyCalled
        /\ fuzzy' = r.fuzzy
        /\ results' = r.results
        /\ relatedFuzzyCalled' = r.relatedFuzzyCalled
        /\ relatedResults' = r.relatedResults

\* no call of the search API is being observed
NoCall == [op |-> "none", arg |-> <<>>, limit |-> 0]

\* the state after construction and the first render (query "", toggle off)
InitWith(catalogs) ==
    /\ entries \in catalogs
    /\ indexes = createIndexes(entries)
    /\ built = indexes
    /\ call = NoCall
    /\ ret = <<>>
    /\ flag = FALSE
    /\ found = <<>>
    /\ \E r \in {RenderState(indexes, entries, <<>>, FALSE, <<>>)} :
        /\ query = r.query
        /\ fuzzyEnabled = r.fuzzyEnabled
        /\ pasteMode = r.pasteMode
        /\ detected = r.detected
        /\ fuzzyCalled = r.fuzzyCalled
        /\ fuzzy = r.fuzzy
        /\ results = r.results
        /\ relatedFuzzyCalled = r.relatedFuzzyCalled
        /\ relatedResults = r.relatedResults

(***************************************************************************)
(* The search API, called in any order with any arguments; the calls are    *)
(* synchronous, so each one has returned before the next one starts         *)
(***************************************************************************)
Init == InitWith(Catalogs)

CallFastSearch ==
    /\ call = NoCall
    /\ \E q \in Queries, limit \in Limits :
        /\ call' = [op |-> "fastSearch", arg |-> q, limit |-> limit]
        /\ ret' = fastSearch(indexes, q, limit)
        /\ indexes' = [indexes EXCEPT !.prepared = PreparedAfterFastSearch(indexes, q)]
        /\ flag' = FALSE
        /\ found' = <<>>
        /\ UNCHANGED <<entries, built, appVars>>

CallFuzzySearch ==
    /\ call = NoCall
    /\ \E q \in FuzzyQueries, limit \in Limits :
        \E answer \in FuseAnswers(indexes.fuse, limit) :
            /\ call' = [op |-> "fuzzySearch", arg |-> q, limit |-> limit]
            /\ ret' = fuzzySearch(indexes, q, limit, answer)
            /\ flag' = FALSE
            /\ found' = <<>>
            /\ UNCHANGED <<entries, indexes, built, appVars>>

CallIsPasteMode ==
    /\ call = NoCall
    /\ \E input \in PasteTexts :
        /\ call' = [op |-> "isPasteMode", arg |-> input, limit |-> 0]
        /\ flag' = isPasteMode(input)
        /\ ret' = <<>>
        /\ found' = <<>>
        /\ UNCHANGED <<entries, indexes, built, appVars>>

CallDetect ==
    /\ call = NoCall
    /\ \E text \in Texts :
        /\ call' = [op |-> "detectFromPastedText", arg |-> text, limit |-> 0]
        /\ ret' = detectFromPastedText(indexes, text)
        /\ found' = detectedInOrder(indexes, text)
        /\ flag' = FALSE
        /\ UNCHANGED <<entries, indexes, built, appVars>>

\* the caller is done with the returned value
Return ==
    /\ call # NoCall
    /\ call' = NoCall
    /\ ret' = <<>>
    /\ flag' = FALSE
    /\ found' = <<>>
    /\ UNCHANGED <<entries, indexes, built, appVars>>

Next == CallFastSearch \/ CallFuzzySearch \/ CallIsPasteMode \/ CallDetect \/ Return

Spec == Init /\ [][Next]_vars

(***************************************************************************)
(* Detections alone, one pasted text after the other                       *)
(***************************************************************************)
NextDetect == CallDetect \/ Return

SpecDetect == Init /\ [][NextDetect]_vars

(***************************************************************************)
(* The paste-mode predicate on inputs around the length threshold          *)
(***************************************************************************)
InitPaste == InitWith({WithRefs(<<Pool[1]>>)})

PasteCall ==
    \E input \in PasteInputs :
        /\ call' = [op |-> "isPasteMode", arg |-> input, limit |-> 0]
        /\ flag' = isPasteMode(input)
        /\ ret' = <<>>
        /\ found' = <<>>
        /\ UNCHANGED <<entries, indexes, built, appVars>>

SpecPaste == InitPaste /\ [][PasteCall]_vars

(***************************************************************************)
(* Direct searches for the names of the catalog: the query is the raw text *)
(* of a name field of an entry                                             *)
(***************************************************************************)
NamesOf(catalog) ==
    UNION {Range(<<catalog[i].en, catalog[i].ja, catalog[i].roomaji>> \o catalog[i].aliases) :
              i \in 1..Len(catalog)}

CallFastSearchByName ==
    /\ call = NoCall
    /\ \E q \in NamesOf(entries), limit \in Limits :
        /\ call' = [op |-> "fastSearch", arg |-> q, limit |-> limit]
        /\ ret' = fastSearch(indexes, q, limit)
        /\ indexes' = [indexes EXCEPT !.prepared = PreparedAfterFastSearch(indexes, q)]
        /\ flag' = FALSE
        /\ found' = <<>>
        /\ UNCHANGED <<entries, built, appVars>>

NextNames == CallFastSearchByName \/ Return

SpecNames == Init /\ [][NextNames]_vars

(***************************************************************************)
(* The rank scan of fastSearch for one prepared entry, with any variants   *)
(* and values                                                              *)
(***************************************************************************)
CallBestRank ==
    /\ call = NoCall
    /\ \E queries \in VariantLists, values \in ValueLists :
        /\ call' = [op |-> "bestRank", arg |-> <<queries, values>>, limit |-> 0]
        /\ ret' = <<ScanQueries(queries, 1, values, 0)>>
        /\ flag' = FALSE
        /\ found' = <<>>
        /\ UNCHANGED <<entries, indexes, built, appVars>>

NextRank == CallBestRank \/ Return

SpecRank == InitPaste /\ [][NextRank]_vars

(***************************************************************************)
(* Direct searches on catalogs of unique dex given in every order          *)
(***************************************************************************)
InitOrder == InitWith(OrderedCatalogs)

NextOrder == CallFastSearch \/ Return

SpecOrder == InitOrder /\ [][NextOrder]_vars

(***************************************************************************)
(* The normalizer, called with any short text                              *)
(***************************************************************************)
CallNormalize ==
    /\ call = NoCall
    /\ \E value \in NormalizerTexts :
        /\ call' = [op |-> "normalize", arg |-> value, limit |-> 0]
        /\ ret' = normalize(value)
        /\ flag' = FALSE
        /\ found' = <<>>
        /\ UNCHANGED <<entries, indexes, built, appVars>>

CallNormalizedVariants ==
    /\ call = NoCall
    /\ \E value \in NormalizerTexts :
        /\ call' = [op |-> "normalizedVariants", arg |-> value, limit |-> 0]
        /\ ret' = normalizedVariants(value)
        /\ flag' = FALSE
        /\ found' = <<>>
        /\ UNCHANGED <<entries, indexes, built, appVars>>

CallRomajiToleranceVariants ==
    /\ call = NoCall
    /\ \E value \in ToleranceTexts :
        /\ call' = [op |-> "romajiToleranceVariants", arg |-> value, limit |-> 0]
        /\ ret' = romajiToleranceVariants(value)
        /\ flag' = FALSE
        /\ found' = <<>>
        /\ UNCHANGED <<entries, indexes, built, appVars>>

NextText == CallNormalize \/ CallNormalizedVariants \/ CallRomajiToleranceVariants \/ Return

SpecText == InitPaste /\ [][NextText]_vars

(***************************************************************************)
(* The view: the user edits the query and flips the toggle                 *)
(***************************************************************************)
InitApp == InitWith(AppCatalogs)

SetQuery ==
    \E q \in AppQueries, answer \in FuseAnswers(indexes.fuse, MAX_RESULTS) :
        /\ q # query
        /\ Render(q, fuzzyEnabled, answer)
        /\ UNCHANGED <<entries, indexes, built, apiVars>>

SetFuzzyEnabled ==
    \E answer \in FuseAnswers(indexes.fuse, MAX_RESULTS) :
        /\ Render(query, ~fuzzyEnabled, answer)
        /\ UNCHANGED <<entries, indexes, built, apiVars>>

NextApp == SetQuery \/ SetFuzzyEnabled

SpecApp == InitApp /\ [][NextApp]_vars

(***************************************************************************)
(* Properties                                                              *)
(***************************************************************************)
Min(a, b) == IF a < b THEN a ELSE b

\* no two entries of the catalog have the same dex
UniqueDex == \A i, j \in 1..Len(entries) : entries[i].dex = entries[j].dex => i = j

\* the positions in the catalog of the entries of a list
RefsOf(list) == {list[k].ref : k \in 1..Len(list)}

\* every element of a list is the catalog entry at its position
FromCatalog(list) ==
    \A k \in 1..Len(list) :
        list[k].ref \in 1..Len(entries) /\ list[k] = entries[list[k].ref]

\* the least rank of a match of some value against some variant; 0: no match
MatchRank(values, variants) ==
    LET ranks == {rankValue(variants[i], values[j]) :
                     i \in 1..Len(variants), j \in 1..Len(values)} \ {0}
    IN  IF ranks = {} THEN 0 ELSE CHOOSE r \in ranks : \A x \in ranks : r <= x

\* the rank of each catalog entry for the query of the observed call
RankOfEntry == 
    [i \in 1..Len(entries) |->
        MatchRank(indexes.prepared[i].values, normalizedVariants(Trim(call.arg)))]

Matched == {i \in 1..Len(entries) : RankOfEntry[i] # 0}

\* entry i is ordered before entry j: lower rank, then lower dex
RankedBefore(i, j) ==
    \/ RankOfEntry[i] < RankOfEntry[j]
    \/ RankOfEntry[i] = RankOfEntry[j] /\ entries[i].dex < entries[j].dex

\* the observed call is a direct search whose query has variants
RankedSearch ==
    /\ call.op = "fastSearch"
    /\ Trim(call.arg) # <<>>
    /\ normalizedVariants(Trim(call.arg)) # <<>>
    /\ UniqueDex

\* C1: for a catalog with unique dex and a non-blank query with variants,
\* fastSearch returns entries that match (rank 1 equal, 2 prefix, 3 substring
\* against some variant) and no others, in ascending order of rank and then
\* of dex; it returns min(limit, number of matching entries) of them, and an
\* entry left out is ordered after every entry returned.
C1_FastSearchRanked ==
    RankedSearch =>
        /\ FromCatalog(ret)
        /\ RefsOf(ret) \subseteq Matched
        /\ Len(ret) = Min(call.limit, Cardinality(Matched))
        /\ \A k, l \in 1..Len(ret) : k < l => RankedBefore(ret[k].ref, ret[l].ref)
        /\ \A i \in Matched \ RefsOf(ret) :
               \A k \in 1..Len(ret) : RankedBefore(ret[k].ref, i)

\* C1 happens: one entry has no match, the best match is returned, and a
\* matching entry with a lower dex and a worse rank is cut off by the limit
C1_Witness ==
    /\ RankedSearch
    /\ Len(ret) >= 1
    /\ Matched # 1..Len(entries)
    /\ \E i \in Matched \ RefsOf(ret) :
           /\ entries[i].dex < ret[1].dex
           /\ RankOfEntry[i] > RankOfEntry[ret[1].ref]

\* the observed call is a direct search with an empty or whitespace-only query
BlankSearch == call.op = "fastSearch" /\ Trim(call.arg) = <<>>

\* C2: for an empty or whitespace-only query fastSearch returns
\* min(limit, size of the catalog) distinct entries of the catalog in
\* ascending order of dex, and no entry left out has a lower dex than one
\* returned, whatever the order of the catalog.
C2_BlankSearchAllByDex ==
    BlankSearch =>
        /\ FromCatalog(ret)
        /\ Len(ret) = Min(call.limit, Len(entries))
        /\ Cardinality(RefsOf(ret)) = Len(ret)
        /\ \A k, l \in 1..Len(ret) : k < l => ret[k].dex <= ret[l].dex
        /\ \A i \in (1..Len(entries)) \ RefsOf(ret) :
               \A k \in 1..Len(ret) : ret[k].dex <= entries[i].dex

\* C2 happens: a whitespace-only query on a catalog that is not in order of
\* dex, with a limit that cuts the list
C2_Witness ==
    /\ BlankSearch
    /\ call.arg # <<>>
    /\ Len(ret) >= 2
    /\ Len(ret) < Len(entries)
    /\ \E i, j \in 1..Len(entries) : i < j /\ entries[i].dex > entries[j].dex

\* what the direct search returns for the query of the view
DirectResults == fastSearch(indexes, query, MAX_RESULTS)

\* C3: the results computation calls fuzzySearch only if the direct search
\* returned fewer than 5 entries or the fuzzy option is on; with 5 or more
\* direct results and the option off it does not call it and the results
\* are the direct results, the same entries in the same order.
C3_FuzzyOnlyWhenNeeded ==
    /\ fuzzyCalled => (Len(DirectResults) < 5 \/ fuzzyEnabled)
    /\ (Len(DirectResults) >= 5 /\ ~fuzzyEnabled) =>
           (~fuzzyCalled /\ results = DirectResults)

\* C3 happens: a non-blank query with 5 or more direct results, option off
C3_Witness ==
    /\ Trim(query) # <<>>
    /\ Len(DirectResults) >= 5
    /\ Len(DirectResults) < Len(entries)
    /\ ~fuzzyEnabled
    /\ ~fuzzyCalled
    /\ results = DirectResults

\* a list without the elements whose dex occurs earlier in it
RECURSIVE KeepFirstDex(_)
KeepFirstDex(list) ==
    IF list = <<>> THEN <<>>
    ELSE LET front == SubSeq(list, 1, Len(list) - 1)
             last == list[Len(list)]
         IN  IF last.dex \in {front[k].dex : k \in 1..Len(front)}
                 THEN KeepFirstDex(front)
             ELSE Append(KeepFirstDex(front), last)

\* the direct results, then the fuzzy results whose dex is new, up to the limit
MergedResults == Slice(KeepFirstDex(DirectResults \o fuzzy), 0, MAX_RESULTS)

\* the catalog entry a dex stands for: the last one with that dex
LastWithDex(dex) ==
    entries[CHOOSE i \in 1..Len(entries) :
               /\ entries[i].dex = dex
               /\ \A j \in 1..Len(entries) : entries[j].dex = dex => j <= i]

\* the entries of the catalog on a chain of dex, in the order of the chain
RECURSIVE ChainEntries(_)
ChainEntries(chain) ==
    IF chain = <<>> THEN <<>>
    ELSE (IF \E i \in 1..Len(entries) : entries[i].dex = Head(chain)
             THEN <<LastWithDex(Head(chain))>> ELSE <<>>)
         \o ChainEntries(Tail(chain))

\* each entry of a list followed by the entries of its evolution chain (of
\* itself, when it has no chain)
RECURSIVE WithChains(_)
WithChains(list) ==
    IF list = <<>> THEN <<>>
    ELSE <<Head(list)>>
         \o ChainEntries(IF Head(list).evolution = <<>> THEN <<Head(list).dex>>
                         ELSE Head(list).evolution)
         \o WithChains(Tail(list))

\* the chain of an entry
ChainOfEntry(entry) == IF entry.evolution = <<>> THEN <<entry.dex>> ELSE entry.evolution

\* the numbers of a set from the lowest to the highest
RECURSIVE Lowest(_)
Lowest(set) ==
    IF set = {} THEN <<>>
    ELSE LET low == CHOOSE x \in set : \A y \in set : x <= y
         IN  <<low>> \o Lowest(set \ {low})

\* the dex related to a dex: those of the chains that hold it, in ascending
\* order; the dex alone if no chain holds it
RelatedTo(dex) ==
    LET chains == {ChainOfEntry(entries[i]) : i \in 1..Len(entries)}
        together == UNION {Range(c) : c \in {c \in chains : dex \in Range(c)}}
    IN  IF together = {} THEN <<dex>> ELSE Lowest(together)

\* each entry of a list followed by the entries of the dex related to it
RECURSIVE WithRelated(_)
WithRelated(list) ==
    IF list = <<>> THEN <<>>
    ELSE <<Head(list)>> \o ChainEntries(RelatedTo(Head(list).dex)) \o WithRelated(Tail(list))

\* C4 as stated: whenever fuzzySearch was called, the results are the direct
\* results followed by the fuzzy results in the matcher's order without the
\* entries whose dex is already present, cut at the limit; nothing else is
\* inserted, so that the direct results are a contiguous prefix.
C4_MergedOnly ==
    /\ fuzzyCalled => results = MergedResults
    /\ relatedFuzzyCalled => relatedResults = MergedResults

\* C4, as the code has it: whenever fuzzySearch was called, the merged list
\* (direct results, then the fuzzy results whose dex is new, cut at the
\* limit) is the result for a blank query; for any other query every entry
\* of the merged list is followed by the catalog entries of its evolution
\* chain, an entry whose dex is already present is skipped, and the list is
\* cut at the limit.  In the view without the toggle the chain of an entry
\* is the ascending list of the dex of all chains that hold its dex.
C4_MergedThenChains ==
    /\ fuzzyCalled =>
           results = IF Trim(query) = <<>> THEN MergedResults
                     ELSE Slice(KeepFirstDex(WithChains(MergedResults)), 0, MAX_RESULTS)
    /\ relatedFuzzyCalled =>
           relatedResults =
               IF Trim(query) = <<>> THEN MergedResults
               ELSE Slice(KeepFirstDex(WithRelated(MergedResults)), 0, MAX_RESULTS)

\* C4 happens: fuzzySearch was called in both views, one of its items was
\* skipped and one was appended, and a chain entry that is in neither list
\* is in the results of both
C4_Witness ==
    /\ fuzzyCalled
    /\ DirectResults # <<>>
    /\ Len(MergedResults) > Len(DirectResults)
    /\ Len(MergedResults) < Len(DirectResults) + Len(fuzzy)
    /\ RefsOf(results) \ RefsOf(MergedResults) # {}
    /\ relatedFuzzyCalled
    /\ RefsOf(relatedResults) \ RefsOf(MergedResults) # {}

\* the observed call is a detection
Detection == call.op = "detectFromPastedText"

DexOf(list) == {list[k].dex : k \in 1..Len(list)}

\* the four exact-match maps by name
MapOf(name) ==
    CASE name = "en" -> indexes.enMap
      [] name = "ja" -> indexes.jaMap
      [] name = "roomaji" -> indexes.roomajiMap
      [] name = "alias" -> indexes.aliasMap

AllMaps == {"en", "ja", "roomaji", "alias"}
JpMaps == {"ja", "alias"}
LatinMaps == {"en", "roomaji", "alias"}

\* the positions of the entries a key has in the named maps
KeyHits(key, names) ==
    {MapOf(n)[key].ref : n \in {m \in names : key \in DOMAIN MapOf(m)}}

\* the tokens and the runs of the text of the observed call
TokensOfCall == SplitTokens(call.arg, TOKEN_CHAR)
JpRunsOfCall == MatchRuns(call.arg, JP_CHAR, <<>>)
LatinRunsOfCall == MatchRuns(call.arg, LATIN_CHAR, <<>>)

\* the entries hit by the normalized form of some token in any map
TokenHits ==
    UNION {KeyHits(normalize(TokensOfCall[t]), AllMaps) : t \in 1..Len(TokensOfCall)}

\* the windows of the normalized runs: run r, first position at (from 0),
\* length size, with lo <= size <= hi
WindowsOfRun(r, chars, lo, hi) ==
    {w \in [run : {r}, at : 0..Len(chars), size : lo..hi] : w.at + w.size <= Len(chars)}

WindowsOf(runs, lo, hi) ==
    UNION {WindowsOfRun(r, normalize(runs[r]), lo, hi) : r \in 1..Len(runs)}

WindowText(runs, w) == Slice(normalize(runs[w.run]), w.at, w.at + w.size)

\* the hits of the windows of one pass: which window hits which entry
WindowHits(pass, runs, names, lo, hi) ==
    UNION {{[pass |-> pass, run |-> w.run, at |-> w.at, size |-> w.size, ref |-> x] :
               x \in KeyHits(WindowText(runs, w), names)} :
           w \in WindowsOf(runs, lo, hi)}

JpHits == WindowHits(1, JpRunsOfCall, JpMaps, 2, 6)
LatinHits == WindowHits(2, LatinRunsOfCall, LatinMaps, 3, 12)

HitRefs(hits) == {h.ref : h \in hits}

\* C5: the list detect returns is in strictly ascending order of dex, so
\* that no dex occurs twice in it, whichever passes hit the entry.
C5_DetectedOnceByDex ==
    Detection =>
        /\ FromCatalog(ret)
        /\ \A k, l \in 1..Len(ret) : k < l => ret[k].dex < ret[l].dex

\* C5 happens: an entry is hit by a whole token and by a window inside a
\* longer run, and another entry with a lower dex is detected after it
C5_Witness ==
    /\ Detection
    /\ \E x \in TokenHits, h \in JpHits \cup LatinHits :
           /\ h.ref = x
           /\ h.size < Len(normalize((IF h.pass = 1 THEN JpRunsOfCall
                                       ELSE LatinRunsOfCall)[h.run]))
           /\ Cardinality({k \in 1..Len(ret) : ret[k].dex = entries[x].dex}) = 1
    /\ \E k, l \in 1..Len(found) : k < l /\ found[k].dex > found[l].dex

\* C6: the entries detect returns are entries hit by the normalized form of
\* a token in one of the four maps, by a window of 2 to 6 characters of a
\* normalized secondary-script run in the ja or the alias map, or by a
\* window of 3 to 12 characters of a normalized Latin run in the en, the
\* roomaji or the alias map; and the dex it returns are the dex of all
\* these hits.
C6_DetectedAreTheHits ==
    Detection =>
        /\ RefsOf(ret) \subseteq TokenHits \cup HitRefs(JpHits) \cup HitRefs(LatinHits)
        /\ DexOf(ret) =
               {entries[x].dex : x \in TokenHits \cup HitRefs(JpHits) \cup HitRefs(LatinHits)}

\* C6 happens: the three passes each contribute an entry of their own
C6_Witness ==
    /\ Detection
    /\ UniqueDex
    /\ TokenHits # {}
    /\ HitRefs(JpHits) \ TokenHits # {}
    /\ HitRefs(LatinHits) \ (TokenHits \cup HitRefs(JpHits)) # {}
    /\ Len(ret) = 3

\* hit b is made by a shorter window inside the window of hit a, and the
\* two entries differ in dex
NestedHits(a, b) ==
    /\ a.pass = b.pass /\ a.run = b.run
    /\ b.size < a.size
    /\ a.at <= b.at /\ b.at + b.size <= a.at + a.size
    /\ entries[a.ref].dex # entries[b.ref].dex

\* hit h is made in a later round than hit a: a later pass, a later run of
\* the same pass, or a shorter window of the same run
LaterRound(a, h) ==
    \/ a.pass < h.pass
    \/ a.pass = h.pass /\ a.run < h.run
    \/ a.pass = h.pass /\ a.run = h.run /\ h.size < a.size

\* no token hits the dex of hit b, and every window that hits it is probed
\* in a later round than hit a
OnlyAfter(a, b) ==
    /\ entries[b.ref].dex \notin {entries[x].dex : x \in TokenHits}
    /\ \A h \in JpHits \cup LatinHits :
           entries[h.ref].dex = entries[b.ref].dex => LaterRound(a, h)

PositionOf(list, dex) == CHOOSE k \in 1..Len(list) : list[k].dex = dex

\* C7: if a window of a normalized run is a key of entry A and a shorter
\* window inside it is a key of an entry B with another dex, in the maps
\* of that pass, then detect returns an entry with the dex of A and one
\* with the dex of B (A and B themselves when dex are unique); and the
\* longer windows are probed first: if nothing hits the dex of B before
\* the shorter windows of that run are probed, A is detected before B.
C7_LongerWindowsFirst ==
    Detection =>
        \A a, b \in JpHits \cup LatinHits :
            NestedHits(a, b) =>
                /\ {entries[a.ref].dex, entries[b.ref].dex} \subseteq DexOf(ret)
                /\ UniqueDex => {a.ref, b.ref} \subseteq RefsOf(ret)
                /\ OnlyAfter(a, b) =>
                       PositionOf(found, entries[a.ref].dex)
                           < PositionOf(found, entries[b.ref].dex)

\* C7 happens: the longest window hits A, a shortest window inside it hits
\* B, whose dex is lower and is hit by nothing else
C7_Witness ==
    /\ Detection
    /\ UniqueDex
    /\ \E a, b \in JpHits :
           /\ NestedHits(a, b)
           /\ OnlyAfter(a, b)
           /\ a.size = 6 /\ b.size = 2
           /\ entries[b.ref].dex < entries[a.ref].dex
           /\ {a.ref, b.ref} \subseteq RefsOf(ret)

\* C8: isPasteMode is true exactly for an input of more than 30 characters
\* or with a whitespace character in it: the answer is a function of the
\* input alone.
C8_PasteModeIff ==
    call.op = "isPasteMode" =>
        (flag <=> (Len(call.arg) > 30 \/ \E k \in 1..Len(call.arg) : call.arg[k] = "SP"))

\* C8 happens: 31 characters without whitespace are paste mode
C8_Witness ==
    /\ call.op = "isPasteMode"
    /\ Len(call.arg) = 31
    /\ \A k \in 1..Len(call.arg) : call.arg[k] # "SP"
    /\ flag

\* C9: the indexes are what createIndexes returned, after every call
C9_IndexesUnchanged == indexes = built

\* C9 happens: a blank direct search, which sorts, has returned on a
\* catalog that is not in order of dex
C9_Witness ==
    /\ BlankSearch
    /\ Len(ret) >= 2
    /\ \E i, j \in 1..Len(entries) : i < j /\ entries[i].dex > entries[j].dex
    /\ indexes = built

\* the texts of an entry whose variants are keys of the named map
TextsOfField(entry, name) ==
    CASE name = "en" -> {entry.en}
      [] name = "ja" -> {entry.ja}
      [] name = "roomaji" -> {entry.roomaji}
      [] name = "alias" -> Range(entry.aliases)

\* for each catalog position, the variants of that field of the entry
FieldKeys(name) ==
    [i \in 1..Len(entries) |->
        UNION {Range(normalizedVariants(text)) : text \in TextsOfField(entries[i], name)}]

\* the positions of the entries that have the key, given the keys of each
Holders(keys, key) == {i \in DOMAIN keys : key \in keys[i]}

\* the map holds the keys of every entry and nothing else, and each key
\* maps to the last entry that has it
LastHolderWins(map, keys) ==
    /\ DOMAIN map = UNION {keys[i] : i \in DOMAIN keys}
    /\ \A key \in DOMAIN map :
           /\ map[key].ref \in Holders(keys, key)
           /\ map[key] = entries[map[key].ref]
           /\ \A i \in Holders(keys, key) : i <= map[key].ref

\* C10: in each of the four maps every key is a variant of that field of
\* some entry, every such variant is a key, and the key maps to the last
\* entry of the catalog that has it.
C10_LastWriteWins ==
    \A name \in AllMaps :
        \A keys \in {FieldKeys(name)} : LastHolderWins(MapOf(name), keys)

\* C10 happens: two entries share a key of the en map, a token of a
\* detection has that key, and the later entry is returned, not the earlier
C10_Witness ==
    /\ Detection
    /\ \E key \in DOMAIN indexes.enMap, keys \in {FieldKeys("en")} :
           /\ Cardinality(Holders(keys, key)) >= 2
           /\ \E t \in 1..Len(TokensOfCall) : normalize(TokensOfCall[t]) = key
           /\ indexes.enMap[key].ref \in RefsOf(ret)
           /\ \E i \in Holders(keys, key) : i \notin RefsOf(ret)

\* the texts of the name fields of an entry, as createIndexes reads them: an
\* absent transliteration is read as the empty text
NameTexts(entry) == <<entry.en, entry.ja, entry.roomaji>> \o entry.aliases

NoDuplicates(list) == \A i, j \in 1..Len(list) : list[i] = list[j] => i = j

Occurrences(list, x) == Cardinality({k \in 1..Len(list) : list[k] = x})

\* the normalized variants of each name field of an entry
FieldVariants(entry) ==
    [k \in 1..Len(NameTexts(entry)) |-> normalizedVariants(NameTexts(entry)[k])]

\* the name fields that produce a variant
FieldsProducing(byField, variant) ==
    {k \in DOMAIN byField : variant \in Range(byField[k])}

\* C11 as stated: the values of every prepared entry hold no normalized
\* variant more than once, also when two fields of the entry produce it.
C11_ValuesDeduplicated ==
    \A i \in 1..Len(indexes.prepared) : NoDuplicates(indexes.prepared[i].values)

\* C11 amended: the values of every prepared entry are, as a set, the union
\* of the normalized variants of its name fields, and a variant occurs in
\* them once for every name field that produces it.
C11_ValuesOncePerField ==
    \A i \in 1..Len(indexes.prepared) : \A byField \in {FieldVariants(entries[i])} :
        /\ indexes.prepared[i].entry = entries[i]
        /\ Range(indexes.prepared[i].values) = UNION {Range(byField[k]) : k \in DOMAIN byField}
        /\ \A v \in Range(indexes.prepared[i].values) :
               Occurrences(indexes.prepared[i].values, v)
                   = Cardinality(FieldsProducing(byField, v))

\* C11 happens: two fields of an indexed entry produce the same variant, a
\* third variant comes from one field only, and a search has used the values
C11_Witness ==
    /\ call.op = "fastSearch"
    /\ \E i \in RefsOf(ret) : \E byField \in {FieldVariants(entries[i])} :
           \E v, w \in Range(indexes.prepared[i].values) :
               /\ Cardinality(FieldsProducing(byField, v)) >= 2
               /\ Cardinality(FieldsProducing(byField, w)) = 1

\* C12: normalize is idempotent: normalizing what normalize returned gives
\* the same text again.
C12_NormalizeIdempotent == call.op = "normalize" => normalize(ret) = ret

\* C12 happens: normalize changed a text with an upper-case letter, a
\* katakana and prolonged sound marks, and more than one mark was dropped
C12_Witness ==
    /\ call.op = "normalize"
    /\ ret # <<>>
    /\ ret # call.arg
    /\ Cardinality({i \in 1..Len(call.arg) : call.arg[i] = "CHOON"}) >= 2
    /\ Len(ret) = Len(call.arg) - 2

RewrittenC(base) ==
    [i \in 1..Len(base) |->
        IF base[i] = "c" /\ i < Len(base) /\ base[i + 1] \in {"a", "o", "u"}
            THEN "k" ELSE base[i]]

\* the positions of a text that do not repeat the vowel before them
KeptOfRuns(text) ==
    {i \in 1..Len(text) : ~(i > 1 /\ text[i] \in {"a", "e", "i", "o", "u"}
                                  /\ text[i - 1] = text[i])}

\* the text at a set of its positions, in order
RECURSIVE AtPositions(_, _)
AtPositions(text, positions) ==
    IF positions = {} THEN <<>>
    ELSE LET last == CHOOSE i \in positions : \A j \in positions : j <= i
         IN  Append(AtPositions(text, positions \ {last}), text[last])

\* the form with every run of identical vowels collapsed to one vowel
Collapsed(text) == AtPositions(text, KeptOfRuns(text))

ExactTier(j) ==
    Range(indexes.prepared[j].values) \cap Range(normalizedVariants(Trim(call.arg))) # {}

\* the exact-tier entries with a smaller dex than entry i
ExactBefore(i) == {j \in 1..Len(entries) : ExactTier(j) /\ entries[j].dex < entries[i].dex}

\* the entries one of whose name fields is the query of the observed call
NamedByQuery ==
    {i \in 1..Len(entries) :
        \E k \in 1..Len(NameTexts(entries[i])) : NameTexts(entries[i])[k] = call.arg}

\* C15: a direct search whose query is the raw text of a name field of an
\* entry, with a non-empty normalized form, puts the entry in the exact
\* tier: the entry comes right after the exact-tier entries of smaller dex,
\* and is in the result whenever these are fewer than the limit (catalogs
\* with unique dex).
C15_FoundByOwnName ==
    (call.op = "fastSearch" /\ UniqueDex /\ normalize(call.arg) # <<>>) =>
        \A i \in NamedByQuery :
            /\ ExactTier(i)
            /\ Cardinality(ExactBefore(i)) < call.limit =>
                   /\ Len(ret) > Cardinality(ExactBefore(i))
                   /\ ret[Cardinality(ExactBefore(i)) + 1] = entries[i]

\* C15 happens: the query is the Japanese name of an entry or one of its
\* aliases, not its primary name, another exact-tier entry comes before it,
\* and an entry of a lower tier after it
C15_Witness ==
    /\ call.op = "fastSearch"
    /\ UniqueDex
    /\ \E i \in NamedByQuery :
           /\ call.arg # entries[i].en
           /\ TestClass(call.arg, JP_CHAR) \/ call.arg \in Range(entries[i].aliases)
           /\ Cardinality(ExactBefore(i)) = 1
           /\ Len(ret) >= 3
           /\ ret[2] = entries[i]
           /\ ~ExactTier(ret[3].ref)

\* the dex of the entries of a list, in its order
DexList(list) == [k \in 1..Len(list) |-> list[k].dex]

\* C16: in every state of the view, for catalogs with unique dex, the
\* displayed results are at most 20 entries and hold no dex twice, whether
\* they are the direct results, the merged results or the expanded ones.
C16_ResultsBounded ==
    UniqueDex =>
        /\ Len(results) <= 20
        /\ NoDuplicates(DexList(results))
        /\ Len(relatedResults) <= 20
        /\ NoDuplicates(DexList(relatedResults))

\* C16 happens: fuzzySearch was called, the merged list was expanded, the
\* expansion had more than 20 entries to show and pushed a chain entry that
\* the merged list does not hold
C16_Witness ==
    /\ UniqueDex
    /\ fuzzyCalled
    /\ Trim(query) # <<>>
    /\ Len(results) = 20
    /\ RefsOf(results) \ RefsOf(MergedResults) # {}
    /\ Len(KeepFirstDex(WithChains(MergedResults))) > 20

\* value holds variant from position at on
HoldsAt(value, variant, at) ==
    /\ at + Len(variant) - 1 <= Len(value)
    /\ \A k \in 1..Len(variant) : value[at + k - 1] = variant[k]

\* the rank of one (variant, value) pair: 1 equal, 2 the value starts with
\* the variant, 3 the value holds it; 0: the pair does not match, as when
\* one of the two is empty
PairRank(variant, value) ==
    IF variant = <<>> \/ value = <<>> THEN 0
    ELSE IF value = variant THEN 1
    ELSE IF HoldsAt(value, variant, 1) THEN 2
    ELSE IF \E at \in 1..Len(value) : HoldsAt(value, variant, at) THEN 3
    ELSE 0

\* the ranks of all pairs that match
RanksOfPairs(variants, values) ==
    {PairRank(variants[i], values[j]) : i \in 1..Len(variants), j \in 1..Len(values)} \ {0}

\* C17: the rank the scan gives an entry is the least rank over all pairs
\* of a query variant and a value that match, as a scan of every pair would
\* find it, and no rank if no pair matches; a pair with an empty variant or
\* an empty value does not match.
C17_BestRankIsLeast ==
    call.op = "bestRank" =>
        \A ranks \in {RanksOfPairs(call.arg[1], call.arg[2])} :
            /\ ranks = {} => ret = <<0>>
            /\ ranks # {} => ret[1] \in ranks /\ \A r \in ranks : ret[1] <= r

\* C17 happens: the first pair matches with rank 3, a later pair with rank
\* 1 stops the scan, a pair after it matches as well, and an empty variant
\* and an empty value are among the pairs
C17_Witness ==
    /\ call.op = "bestRank"
    /\ ret = <<1>>
    /\ Len(call.arg[1]) = 2
    /\ Len(call.arg[2]) = 3
    /\ PairRank(call.arg[1][1], call.arg[2][1]) = 3
    /\ PairRank(call.arg[1][1], call.arg[2][2]) = 1
    /\ call.arg[2][3] = <<>>
    /\ call.arg[1][2] = <<>>

\* the positions of the catalog from the lowest dex to the highest
RECURSIVE PositionsByDex(_)
PositionsByDex(positions) ==
    IF positions = {} THEN <<>>
    ELSE LET first == CHOOSE i \in positions :
                          \A j \in positions : entries[i].dex <= entries[j].dex
         IN  <<first>> \o PositionsByDex(positions \ {first})

\* the catalog with its entries in order of dex
InDexOrder ==
    WithRefs([i \in 1..Len(entries) |-> entries[PositionsByDex(1..Len(entries))[i]]])

\* the entities of a list, whatever their place in the catalog
Entities(list) == [k \in 1..Len(list) |-> [list[k] EXCEPT !.ref = 0]]

\* C18: for a catalog with unique dex, fastSearch returns the same entities
\* in the same order for the same query and limit, in whatever order the
\* entries of the catalog were given to createIndexes: in every order it
\* returns what it returns for the catalog in order of dex.
C18_OrderOfCatalogIrrelevant ==
    (call.op = "fastSearch" /\ UniqueDex) =>
        Entities(ret)
            = Entities(fastSearch([prepared |-> PreparedOf(InDexOrder)], call.arg, call.limit))

\* C18 happens: the catalog has three entries that are not in order of dex,
\* all are returned, two of them have the same rank and come in the order
\* opposite to the catalog's, and the third has another rank
C18_Witness ==
    /\ RankedSearch
    /\ Len(entries) = 3
    /\ Len(ret) = 3
    /\ \E k, l \in 1..3 :
           /\ k < l
           /\ RankOfEntry[ret[k].ref] = RankOfEntry[ret[l].ref]
           /\ ret[k].ref > ret[l].ref
    /\ RankOfEntry[ret[1].ref] # RankOfEntry[ret[3].ref]
    /\ entries[2].dex > entries[1].dex
    /\ entries[2].dex > entries[3].dex

\* ---------------------------------------------------------------------
\* C19: the token pass and the extraction of Japanese runs agree on what
\* a Japanese character is: every character JP_RUN_RE accepts, the
\* prolonged sound mark included, is kept by TOKEN_SPLIT_RE, so every
\* maximal Japanese run of a pasted text lies whole inside one token.
C19_RunsNotSplit ==
    Detection =>
        /\ \A i \in 1..Len(call.arg) :
               call.arg[i] \in JP_CHAR => call.arg[i] \in TOKEN_CHAR
        /\ \A r \in 1..Len(JpRunsOfCall) :
               \E t \in 1..Len(TokensOfCall) :
                   includes(TokensOfCall[t], JpRunsOfCall[r])

=============================================================================
